---- MODULE Spec2Model ----
(***************************************************************************)
(* A model of rustcap's src/core.rs: the capture Handle and its            *)
(* reference-counted HandleLifetime, the LoopBreaker, the blocking loop_   *)
(* and its per-packet trampoline, the configuration wrappers and the Error *)
(* they build, the device-list iterator, the socket-address conversion and *)
(* the TimeStamp conversion.                                               *)
(*                                                                         *)
(* The native engine (libpcap) is the environment: every value a native    *)
(* call returns is drawn from a small set.                                 *)
(***************************************************************************)
EXTENDS Integers, Sequences, FiniteSets, TLC

\* ------------------------------------------------------------------ bounds
\* LoopBreakers that may be alive at once.
MaxBreakers == 2
\* Packets the native engine delivers in one behaviour.
MaxPackets == 2
\* Largest packet count passed to loop_.
MaxCount == 2
\* Bytes in the native packet buffer.
MaxCap == 2
\* loop_ calls that may be suspended in their callback by a nested loop_.
MaxNest == 1

\* ------------------------------------------------------------ option/result
None == <<>>
Some(x) == <<x>>

NoResult == [tag |-> "NoResult"]
Ok(op, st) == [tag |-> "Ok", op |-> op, status |-> st]
Err(op, st, e) == [tag |-> "Err", op |-> op, status |-> st, error |-> e]
Panic(op, st) == [tag |-> "Panic", op |-> op, status |-> st]

\* ------------------------------------------------------------------- text
\* Text is a sequence of bytes. The model's alphabet: NUL, an ASCII letter and
\* 0xFF, a byte that no UTF-8 text holds.
NUL == 0
AsciiBytes == {65}
InvalidBytes == {255}

\* Capacity of the error buffer (ffi::PCAP_ERRBUF_SIZE, scaled down).
PCAP_ERRBUF_SIZE == 3

RECURSIVE SeqsUpTo(_, _)
SeqsUpTo(S, n) ==
    IF n = 0 THEN {<<>>}
    ELSE LET shorter == SeqsUpTo(S, n - 1)
         IN  shorter \cup {Append(q, x) : q \in shorter, x \in S}

HasNul(bytes) == \E i \in 1..Len(bytes) : bytes[i] = NUL

\* Position of the first NUL of a byte sequence, 0 when it holds none.
FirstNul(bytes) ==
    IF HasNul(bytes)
    THEN CHOOSE i \in 1..Len(bytes) :
             bytes[i] = NUL /\ \A j \in 1..(i - 1) : bytes[j] # NUL
    ELSE 0

\* Over this alphabet a text is UTF-8 exactly when it holds no invalid byte.
ValidUtf8(bytes) == \A i \in 1..Len(bytes) : bytes[i] \notin InvalidBytes

\* CStr::to_string_lossy: every invalid byte becomes U+FFFD
to_string_lossy(bytes) ==
    [i \in 1..Len(bytes) |-> IF bytes[i] \in InvalidBytes THEN 65533 ELSE bytes[i]]

\* CString::new(text): fails on an embedded NUL (the callers unwrap it)
CString_new_ok(text) == ~HasNul(text)

\* ------------------------------------------------------------------ Error
\* ErrBuf::new: a zeroed buffer
ErrBuf_new == [i \in 1..PCAP_ERRBUF_SIZE |-> NUL]

\* ErrBuf::read: CStr::from_bytes_with_nul over the WHOLE buffer, which accepts
\* it only when its one NUL is its last byte; None stands for the Err.
ErrBuf_read(buf) ==
    IF FirstNul(buf) = Len(buf)
    THEN Some(to_string_lossy(SubSeq(buf, 1, Len(buf) - 1)))
    ELSE None

\* Error::new
Error_new(err_buf, err_code) ==
    [message |-> ErrBuf_read(err_buf), code |-> err_code]

\* Error::from_last: geterr is what pcap_geterr returns, None for a null
\* pointer, Some(bytes) for a C string; to_str().unwrap() panics on bytes
\* that are not UTF-8.
from_last_panics(geterr) == geterr # None /\ ~ValidUtf8(geterr[1])

Error_from_last(geterr, code) ==
    [message |-> IF geterr # None THEN Some(geterr[1]) ELSE None, code |-> code]

\* Error::check
Error_check(op, geterr, code) ==
    IF code # 0
    THEN IF from_last_panics(geterr)
         THEN Panic(op, code)
         ELSE Err(op, code, Error_from_last(geterr, code))
    ELSE Ok(op, code)

\* ----------------------------------------------------------- native inputs
\* Statuses a native configuration call may return.
Statuses == {-1, 0, 1}
\* What pcap_geterr may return.
GetErrs == {None} \cup {Some(t) : t \in {<<65>>, <<255>>}}
\* What a native call may leave in the zeroed error buffer: a NUL-terminated
\* message of any length that fits, or bytes up to the very end with no NUL.
MessageBytes == AsciiBytes \cup InvalidBytes
Written(msg) ==
    [i \in 1..PCAP_ERRBUF_SIZE |-> IF i <= Len(msg) THEN msg[i] ELSE NUL]
ErrBufs ==
    {Written(msg) : msg \in SeqsUpTo(MessageBytes, PCAP_ERRBUF_SIZE - 1)}
        \cup [1..PCAP_ERRBUF_SIZE -> MessageBytes]
\* The buffers tried in a session: untouched, a short message, a message that
\* fills the buffer up to its last byte, and bytes with no NUL.
ErrBufSamples ==
    {ErrBuf_new, Written(<<65>>),
     [i \in 1..PCAP_ERRBUF_SIZE |-> IF i < PCAP_ERRBUF_SIZE THEN 255 ELSE NUL],
     [i \in 1..PCAP_ERRBUF_SIZE |-> 65]}
\* Interface names and filter texts.
Texts == {<<65>>, <<65, NUL>>}
\* Packet payload buffers and packets of the native engine.
TimeStamps == {[sec |-> 10, usec |-> 500000]}
\* The engine never reports more captured bytes than the packet had on the
\* wire, and its buffer holds at least caplen bytes. The packets tried: an
\* empty one, one that fills the buffer, and one cut short at the end of the
\* buffer. The i-th byte of a payload is i.
NativePackets ==
    {p \in [caplen : {0, MaxCap}, len : {0, MaxCap, MaxCap + 1}, ts : TimeStamps,
            data : {[i \in 1..MaxCap |-> i]}] :
        p.caplen <= p.len /\ (p.caplen = 0 => p.len = 0)}
NoPkt == [caplen |-> -1]
NoCb == [seq |-> 0]

VARIABLES
    breakable,    \* cfg(feature = "breakable") of this build
    pcap,         \* the native descriptor: "null", "open" or "closed"
    handle,       \* the Handle value: "none", "live" or "dropped"
    breakers,     \* LoopBreakers alive
    strong,       \* strong count of Arc<HandleLifetime>
    closeCount,   \* pcap_close calls issued
    staleCalls,   \* native calls issued on a descriptor that is not open
    breakFlag,    \* the native break-loop flag of the descriptor
    loopPc,       \* "idle", "poll" (inside pcap_loop) or "callback"
    remaining,    \* packets the running pcap_loop still has to deliver (<= 0: no limit)
    delivered,    \* packets the native engine has handed to the trampoline
    pkt,          \* the native packet being delivered
    outer,        \* the loop_ calls suspended in their callback by a nested loop_
    cbLog,        \* sequence numbers of the packets f was invoked with
    breakAsked,   \* who called break_loop since the thread entered loop_
    cbAfterBreak, \* invocations of a callback since that call
    lastOp,       \* the operation the last step performed
    lastNative,   \* the native call the last step issued, "none" if none
    lastCb,       \* arguments f was invoked with in the last step
    lastText,     \* the text the last step was called with, None if it took none
    result        \* result of the last step, when it was a fallible operation

sessVars == <<breakable, pcap, handle, breakers, strong, closeCount,
              staleCalls, breakFlag, loopPc, remaining, delivered, pkt, outer,
              cbLog, breakAsked, cbAfterBreak, lastOp, lastNative, lastCb, lastText,
              result>>

ownVars == <<handle, breakers, strong>>
loopVars == <<loopPc, remaining, delivered, pkt, outer, cbLog, breakAsked,
              cbAfterBreak>>

SessInit ==
    /\ breakable \in BOOLEAN
    /\ pcap = "null"
    /\ handle = "none"
    /\ breakers = 0
    /\ strong = 0
    /\ closeCount = 0
    /\ staleCalls = {}
    /\ breakFlag = FALSE
    /\ loopPc = "idle"
    /\ remaining = 0
    /\ delivered = 0
    /\ pkt = NoPkt
    /\ outer = <<>>
    /\ cbLog = <<>>
    /\ breakAsked = {}
    /\ cbAfterBreak = 0
    /\ lastOp = "init"
    /\ lastNative = "none"
    /\ lastCb = NoCb
    /\ lastText = None
    /\ result = NoResult

\* ------------------------------------------------------------ native calls
\* The step performs op and issues the native call fn on the descriptor.
Issue(op, fn) ==
    /\ lastOp' = op
    /\ lastNative' = fn
    /\ staleCalls' = IF pcap = "open" THEN staleCalls
                     ELSE staleCalls \cup {<<op, fn>>}

\* The step performs op and issues no native call.
NoNative(op) ==
    /\ lastOp' = op
    /\ lastNative' = "none"
    /\ UNCHANGED staleCalls

\* The step invokes no callback, takes no text and returns no Result.
NoOutput == lastCb' = NoCb /\ lastText' = None /\ result' = NoResult

\* Drop for HandleLifetime, Drop for Handle: ffi::pcap_close
pcap_close(op) ==
    /\ pcap' = "closed"
    /\ closeCount' = closeCount + 1
    /\ Issue(op, "pcap_close")

\* Dropping one Arc<HandleLifetime>, as a bug would have it: every holder
\* that lets go drops the HandleLifetime.
Arc_drop_eager(op) ==
    /\ strong' = strong - 1
    /\ pcap_close(op)

\* Dropping one Arc<HandleLifetime>: the strong count goes down by one and
\* the holder that takes it to zero drops the HandleLifetime.
Arc_drop(op) ==
    /\ strong' = strong - 1
    /\ IF strong = 1
       THEN pcap_close(op)
       ELSE NoNative(op) /\ UNCHANGED <<pcap, closeCount>>

\* Handle::new
Handle_new ==
    /\ handle' = "live"
    /\ pcap' = "open"
    /\ strong' = IF breakable THEN 1 ELSE 0

\* ------------------------------------------------------------ construction
\* Descriptors a native open may return: the null pointer (0) or a session.
Descriptors == {0, 1}

\* create, as a bug would have it: the name goes to the native call as it
\* is, and the native call reads it up to its first NUL.
create_result_unchecked(name, ret, buf) ==
    IF ret = 0 THEN Err("create", ret, Error_new(buf, 1))
    ELSE Ok("create", ret)

\* create: CString::new(..).unwrap(), then ffi::pcap_create. The status of
\* the Result is the pointer the native call returned.
create_result(name, ret, buf) ==
    IF ~CString_new_ok(name) THEN Panic("create", 0)
    ELSE IF ret = 0 THEN Err("create", ret, Error_new(buf, 1))
    ELSE Ok("create", ret)

\* open_live: CString::new(..).unwrap(), then ffi::pcap_open_live
open_live_result(name, ret, buf) ==
    IF ~CString_new_ok(name) THEN Panic("open_live", 0)
    ELSE IF ret = 0 THEN Err("open_live", ret, Error_new(buf, 0))
    ELSE Ok("open_live", ret)

Construct(op, fn, text, res) ==
    /\ handle = "none"
    /\ result' = res
    /\ lastCb' = NoCb
    /\ lastText' = Some(text)
    /\ lastOp' = op
    /\ lastNative' = IF res.tag = "Panic" THEN "none" ELSE fn
    /\ IF res.tag = "Ok"
       THEN Handle_new
       ELSE UNCHANGED <<handle, pcap, strong>>
    /\ UNCHANGED <<breakable, breakers, closeCount, staleCalls, breakFlag, loopVars>>

create ==
    \E name \in Texts, ret \in Descriptors, buf \in ErrBufSamples :
        Construct("create", "pcap_create", name, create_result(name, ret, buf))

open_live ==
    \E name \in Texts, ret \in Descriptors, buf \in ErrBufSamples :
        Construct("open_live", "pcap_open_live", name,
                  open_live_result(name, ret, buf))

\* ------------------------------------------------------ Handle operations
\* The thread that owns the Handle is inside loop_ while loopPc # "idle"; the
\* &self operations (datalink, break_loop, loop_breaker, compile, set_filter
\* and loop_ itself) can then only be reached from the callback, the &mut self
\* operations and the drop not at all.
HandleShared == handle = "live" /\ loopPc \in {"idle", "callback"}
HandleExclusive == handle = "live" /\ loopPc = "idle"

\* Handle::datalink
datalink ==
    /\ HandleShared
    /\ Issue("datalink", "pcap_datalink")
    /\ NoOutput
    /\ UNCHANGED <<breakable, pcap, ownVars, closeCount, breakFlag, loopVars>>

\* Who has asked for a break since the thread entered loop_.
Asked(who) == IF loopPc # "idle" THEN breakAsked \cup {who} ELSE breakAsked

\* Handle::break_loop, as a bug would have it: the request is made by closing
\* the descriptor under the loop.
Handle_break_loop_closes ==
    /\ HandleShared
    /\ pcap_close("Handle_break_loop")
    /\ breakFlag' = TRUE
    /\ breakAsked' = Asked("Handle")
    /\ NoOutput
    /\ UNCHANGED <<breakable, ownVars, loopPc, remaining, delivered, pkt, outer,
                   cbLog, cbAfterBreak>>

\* Handle::break_loop
Handle_break_loop ==
    /\ HandleShared
    /\ Issue("Handle_break_loop", "pcap_breakloop")
    /\ breakFlag' = TRUE
    /\ breakAsked' = Asked("Handle")
    /\ NoOutput
    /\ UNCHANGED <<breakable, pcap, ownVars, closeCount, loopPc, remaining,
                   delivered, pkt, outer, cbLog, cbAfterBreak>>

\* Handle::loop_breaker, as a bug would have it: the raw pointer is copied
\* and the Arc is not cloned.
loop_breaker_raw ==
    /\ breakable
    /\ HandleShared
    /\ breakers < MaxBreakers
    /\ breakers' = breakers + 1
    /\ NoNative("loop_breaker")
    /\ NoOutput
    /\ UNCHANGED <<breakable, pcap, handle, strong, closeCount, breakFlag, loopVars>>

\* Handle::loop_breaker: the new breaker holds a clone of the Arc
loop_breaker ==
    /\ breakable
    /\ HandleShared
    /\ breakers < MaxBreakers
    /\ breakers' = breakers + 1
    /\ strong' = strong + 1
    /\ NoNative("loop_breaker")
    /\ NoOutput
    /\ UNCHANGED <<breakable, pcap, handle, closeCount, breakFlag, loopVars>>

\* A configuration operation called with text (None if it takes none): one
\* native call, its status turned to a Result.
ConfigureText(op, fn, text, res) ==
    /\ result' = res
    /\ lastCb' = NoCb
    /\ lastText' = text
    /\ IF res.tag = "Panic" /\ res.status = 0   \* CString::new failed
       THEN NoNative(op)
       ELSE Issue(op, fn)
    /\ UNCHANGED <<breakable, pcap, ownVars, closeCount, breakFlag, loopVars>>

\* A configuration operation on &self: compile and set_filter
ConfigureShared(op, fn, text, res) ==
    HandleShared /\ ConfigureText(op, fn, text, res)

\* A configuration operation on &mut self: set_nonblock, set_snaplen,
\* set_promisc and activate
Configure(op, fn, res) ==
    HandleExclusive /\ ConfigureText(op, fn, None, res)

\* Handle::chkerr
chkerr(op, geterr, code) == Error_check(op, geterr, code)

\* Handle::compile: CString::new(filter).unwrap(), ffi::pcap_compile, chkerr
compile_result(filter, status, geterr) ==
    IF ~CString_new_ok(filter) THEN Panic("compile", 0)
    ELSE chkerr("compile", geterr, status)

compile ==
    \E filter \in Texts, status \in Statuses, geterr \in GetErrs :
        ConfigureShared("compile", "pcap_compile", Some(filter),
                        compile_result(filter, status, geterr))

\* Handle::set_filter
set_filter ==
    \E status \in Statuses, geterr \in GetErrs :
        ConfigureShared("set_filter", "pcap_setfilter", None,
                        chkerr("set_filter", geterr, status))

\* Handle::set_nonblock: the Error is built from the error buffer with code 1
set_nonblock_result(res, buf) ==
    IF res # 0 THEN Err("set_nonblock", res, Error_new(buf, 1))
    ELSE Ok("set_nonblock", res)

set_nonblock ==
    \E status \in Statuses, buf \in ErrBufSamples :
        Configure("set_nonblock", "pcap_setnonblock", set_nonblock_result(status, buf))

\* Handle::set_snaplen
set_snaplen ==
    \E status \in Statuses, geterr \in GetErrs :
        Configure("set_snaplen", "pcap_set_snaplen", chkerr("set_snaplen", geterr, status))

\* Handle::set_promisc
set_promisc ==
    \E status \in Statuses, geterr \in GetErrs :
        Configure("set_promisc", "pcap_set_promisc", chkerr("set_promisc", geterr, status))

\* Handle::activate
activate ==
    \E status \in Statuses, geterr \in GetErrs :
        Configure("activate", "pcap_activate", chkerr("activate", geterr, status))

\* Drop of the Handle: with the breakable feature its Arc is released,
\* without it Drop for Handle closes the descriptor.
Handle_drop ==
    /\ HandleExclusive
    /\ handle' = "dropped"
    /\ IF breakable
       THEN Arc_drop("Handle_drop")
       ELSE pcap_close("Handle_drop") /\ UNCHANGED strong
    /\ NoOutput
    /\ UNCHANGED <<breakable, breakers, breakFlag, loopVars>>

\* ------------------------------------------------------------- LoopBreaker
\* LoopBreaker::clone (derived): the pointer is copied and the Arc cloned
LoopBreaker_clone ==
    /\ breakers > 0
    /\ breakers < MaxBreakers
    /\ breakers' = breakers + 1
    /\ strong' = strong + 1
    /\ NoNative("LoopBreaker_clone")
    /\ NoOutput
    /\ UNCHANGED <<breakable, pcap, handle, closeCount, breakFlag, loopVars>>

\* LoopBreaker::break_loop, from whichever thread holds the breaker
LoopBreaker_break_loop ==
    /\ breakers > 0
    /\ Issue("LoopBreaker_break_loop", "pcap_breakloop")
    /\ breakFlag' = TRUE
    /\ breakAsked' = Asked("LoopBreaker")
    /\ NoOutput
    /\ UNCHANGED <<breakable, pcap, ownVars, closeCount, loopPc, remaining,
                   delivered, pkt, outer, cbLog, cbAfterBreak>>

\* Drop of a LoopBreaker: its Arc is released
LoopBreaker_drop ==
    /\ breakers > 0
    /\ breakers' = breakers - 1
    /\ Arc_drop("LoopBreaker_drop")
    /\ NoOutput
    /\ UNCHANGED <<breakable, handle, breakFlag, loopVars>>

\* ---------------------------------------------------------- capture loop
\* A loop_ that is suspended in its callback while a nested loop_ runs.
Suspended == [remaining |-> remaining, pkt |-> pkt]

\* Handle::loop_ and Handle::_loop: enter ffi::pcap_loop with the trampoline.
\* Called from the callback of a running loop_, the new pcap_loop runs inside
\* that callback.
loop_ ==
    /\ HandleShared
    /\ loopPc = "callback" => Len(outer) < MaxNest
    /\ \E count \in -1..MaxCount : remaining' = count
    /\ loopPc' = "poll"
    /\ outer' = IF loopPc = "callback" THEN Append(outer, Suspended) ELSE outer
    /\ pkt' = NoPkt
    /\ breakAsked' = IF loopPc = "idle" THEN {} ELSE breakAsked
    /\ cbAfterBreak' = IF loopPc = "idle" THEN 0 ELSE cbAfterBreak
    /\ Issue("loop_", "pcap_loop")
    /\ NoOutput
    /\ UNCHANGED <<breakable, pcap, ownVars, closeCount, breakFlag, delivered,
                   cbLog>>

\* pcap_loop returns, and with it _loop and loop_: to the caller, or into the
\* callback of the loop_ that the call was made from.
loop_returns ==
    IF outer = <<>>
    THEN /\ loopPc' = "idle"
         /\ remaining' = 0
         /\ pkt' = NoPkt
         /\ UNCHANGED outer
    ELSE LET back == outer[Len(outer)]
         IN  /\ loopPc' = "callback"
             /\ remaining' = back.remaining
             /\ pkt' = back.pkt
             /\ outer' = SubSeq(outer, 1, Len(outer) - 1)

\* pcap_loop finds the break flag set: it clears the flag and returns
pcap_loop_break ==
    /\ loopPc = "poll"
    /\ breakFlag
    /\ breakFlag' = FALSE
    /\ loop_returns
    /\ NoNative("pcap_loop_break")
    /\ NoOutput
    /\ UNCHANGED <<breakable, pcap, ownVars, closeCount, delivered, cbLog,
                   breakAsked, cbAfterBreak>>

\* pcap_loop reads a packet and calls the trampoline with it
pcap_loop_deliver ==
    /\ loopPc = "poll"
    /\ ~breakFlag
    /\ delivered < MaxPackets
    /\ pkt' \in NativePackets
    /\ delivered' = delivered + 1
    /\ loopPc' = "callback"
    /\ NoNative("pcap_loop_deliver")
    /\ NoOutput
    /\ UNCHANGED <<breakable, pcap, ownVars, closeCount, breakFlag, remaining,
                   outer, cbLog, breakAsked, cbAfterBreak>>

\* pcap_loop ends on its own: end of stream, or a read error
pcap_loop_end ==
    /\ loopPc = "poll"
    /\ loop_returns
    /\ NoNative("pcap_loop_end")
    /\ NoOutput
    /\ UNCHANGED <<breakable, pcap, ownVars, closeCount, breakFlag, delivered,
                   cbLog, breakAsked, cbAfterBreak>>

\* The closure of loop_, as a bug would have it: the view spans len bytes,
\* and reads whatever lies past the native buffer.
loop_closure_len(p) ==
    [header |-> [ts |-> [sec |-> p.ts.sec, usec |-> p.ts.usec],
                 caplen |-> p.caplen, len |-> p.len],
     bytes |-> [i \in 1..p.len |-> IF i <= Len(p.data) THEN p.data[i] ELSE 0],
     warned |-> p.caplen < p.len]

\* The closure loop_ hands to _loop: what it passes to f for a native packet
\* and whether it logs the truncation warning.
loop_closure(p) ==
    [header |-> [ts |-> [sec |-> p.ts.sec, usec |-> p.ts.usec],
                 caplen |-> p.caplen, len |-> p.len],
     bytes |-> SubSeq(p.data, 1, p.caplen),
     warned |-> p.caplen < p.len]

\* The sequence number of the packet the running callback was called with:
\* the latest packet delivered whose callback has not returned (a packet
\* delivered to a nested loop_ is later than the one its caller is handling).
Handled == {cbLog[i] : i \in 1..Len(cbLog)}
Delivering ==
    CHOOSE n \in (1..delivered) \ Handled :
        \A m \in (1..delivered) \ Handled : m <= n

\* The trampoline, as a bug would have it: the closure is invoked twice for
\* the packet it was called with.
got_packet_twice ==
    /\ loopPc = "callback"
    /\ lastCb' = [seq |-> Delivering, native |-> pkt, args |-> loop_closure(pkt)]
    /\ cbLog' = Append(Append(cbLog, Delivering), Delivering)
    /\ cbAfterBreak' = IF breakAsked # {} THEN cbAfterBreak + 1 ELSE cbAfterBreak
    /\ IF remaining = 1
       THEN loop_returns
       ELSE /\ loopPc' = "poll"
            /\ remaining' = IF remaining > 0 THEN remaining - 1 ELSE remaining
            /\ pkt' = NoPkt
            /\ UNCHANGED outer
    /\ lastText' = None
    /\ result' = NoResult
    /\ NoNative("got_packet")
    /\ UNCHANGED <<breakable, pcap, ownVars, closeCount, breakFlag, delivered,
                   breakAsked>>

\* convert_got_packet_cb's got_packet: the trampoline invokes the closure,
\* which invokes f; then pcap_loop counts the packet.
got_packet ==
    /\ loopPc = "callback"
    /\ lastCb' = [seq |-> Delivering, native |-> pkt, args |-> loop_closure(pkt)]
    /\ cbLog' = Append(cbLog, Delivering)
    /\ cbAfterBreak' = IF breakAsked # {} THEN cbAfterBreak + 1 ELSE cbAfterBreak
    /\ IF remaining = 1
       THEN loop_returns
       ELSE /\ loopPc' = "poll"
            /\ remaining' = IF remaining > 0 THEN remaining - 1 ELSE remaining
            /\ pkt' = NoPkt
            /\ UNCHANGED outer
    /\ lastText' = None
    /\ result' = NoResult
    /\ NoNative("got_packet")
    /\ UNCHANGED <<breakable, pcap, ownVars, closeCount, breakFlag, delivered,
                   breakAsked>>

\* ------------------------------------------------------ address conversion
\* Address families of the target (libc::AF_INET, libc::AF_INET6).
AF_INET == 2
AF_INET6 == 10

VARIABLES
    littleEndian, \* byte order of the target the crate is built for
    pcapAddr,     \* a native pcap_addr: four pointers to sockaddr, None if null
    address       \* the Address converted from it, None before the conversion

addrVars == <<littleEndian, pcapAddr, address>>

Reverse(q) == [i \in 1..Len(q) |-> q[Len(q) + 1 - i]]

\* A u16 field read from memory as the target reads it.
u16_from_ne_bytes(b, le) == IF le THEN b[1] + 256 * b[2] ELSE 256 * b[1] + b[2]

\* A u32 is kept as its four base-256 digits, most significant first; this is
\* a u32 field read from memory as the target reads it.
u32_from_ne_bytes(b, le) == IF le THEN Reverse(b) ELSE b

\* Ipv4Addr::from(u32): the octets are the big-endian bytes of the number
Ipv4Addr_from_u32(v) == v

\* socketaddr_from_sockaddr: sin_addr.s_addr and sin_port are read as the
\* target's integers and handed to Ipv4Addr::from and SocketAddrV4::new as
\* they are; s6_addr is a byte array.
socketaddr_from_sockaddr(addr, le) ==
    IF addr.sa_family = AF_INET
    THEN LET raw_addr == u32_from_ne_bytes(addr.addr, le)
             port == u16_from_ne_bytes(addr.port, le)
         IN  Some([v |-> 4, ip |-> Ipv4Addr_from_u32(raw_addr), port |-> port])
    ELSE IF addr.sa_family = AF_INET6
    THEN LET raw_addr == addr.addr
             port == u16_from_ne_bytes(addr.port, le)
             scope_id == u32_from_ne_bytes(addr.scope_id, le)
             flowinfo == u32_from_ne_bytes(addr.flowinfo, le)
         IN  Some([v |-> 6, ip |-> raw_addr, port |-> port,
                   flowinfo |-> flowinfo, scope_id |-> scope_id])
    ELSE None

\* as_mut().and_then(socketaddr_from_sockaddr) on one pointer of a pcap_addr
field_from(ptr, le) ==
    IF ptr = None THEN None ELSE socketaddr_from_sockaddr(ptr[1], le)

\* From<ffi::pcap_addr> for Address, as a bug would have it: the other fields
\* are converted only when the address itself is there.
Address_from_chained(a, le) ==
    LET first == field_from(a.addr, le)
    IN  [address |-> first,
         netmask |-> IF first = None THEN None ELSE field_from(a.netmask, le),
         broadcast |-> IF first = None THEN None ELSE field_from(a.broadaddr, le),
         destination |-> IF first = None THEN None ELSE field_from(a.dstaddr, le)]

\* From<ffi::pcap_addr> for Address
Address_from(a, le) ==
    [address |-> field_from(a.addr, le),
     netmask |-> field_from(a.netmask, le),
     broadcast |-> field_from(a.broadaddr, le),
     destination |-> field_from(a.dstaddr, le)]

\* Native socket addresses: sockaddr_in (port and address in network byte
\* order), sockaddr_in6, and structures of other families.
Sockaddrs ==
    {[sa_family |-> AF_INET, port |-> <<0, 80>>, addr |-> <<10, 0, 0, 1>>,
      flowinfo |-> <<>>, scope_id |-> <<>>],
     [sa_family |-> AF_INET, port |-> <<0, 0>>, addr |-> <<0, 0, 0, 0>>,
      flowinfo |-> <<>>, scope_id |-> <<>>],
     [sa_family |-> AF_INET6, port |-> <<1, 187>>,
      addr |-> <<254, 128, 0, 0, 0, 0, 0, 0, 0, 0, 0, 0, 0, 0, 0, 1>>,
      flowinfo |-> <<0, 0, 0, 0>>, scope_id |-> <<2, 0, 0, 0>>],
     [sa_family |-> AF_INET6, port |-> <<0, 0>>,
      addr |-> <<0, 0, 0, 0, 0, 0, 0, 0, 0, 0, 0, 0, 0, 0, 0, 0>>,
      flowinfo |-> <<0, 0, 0, 0>>, scope_id |-> <<0, 0, 0, 0>>],
     [sa_family |-> 17, port |-> <<0, 3>>, addr |-> <<0, 0, 0, 2>>,
      flowinfo |-> <<>>, scope_id |-> <<>>],
     [sa_family |-> 0, port |-> <<0, 0>>, addr |-> <<0, 0, 0, 0>>,
      flowinfo |-> <<>>, scope_id |-> <<>>]}

SockaddrPtrs == {None} \cup {Some(a) : a \in Sockaddrs}

PcapAddrs == [addr : SockaddrPtrs, netmask : SockaddrPtrs,
              broadaddr : SockaddrPtrs, dstaddr : SockaddrPtrs]

AddrIdle ==
    /\ littleEndian = TRUE
    /\ pcapAddr = [addr |-> None, netmask |-> None, broadaddr |-> None,
                   dstaddr |-> None]
    /\ address = None

AddrInit ==
    /\ littleEndian \in BOOLEAN
    /\ pcapAddr \in PcapAddrs
    /\ address = None

\* Address::from(pcap_addr)
Address_from_pcap_addr ==
    /\ address = None
    /\ address' = Some(Address_from(pcapAddr, littleEndian))
    /\ UNCHANGED <<littleEndian, pcapAddr>>

\* ------------------------------------------------------ device enumeration
\* Nodes the native device list may hold.
MaxDevs == 3

VARIABLES
    devChain,     \* the native list: the addresses of its nodes, in list order
    devNodes,     \* native memory: the pcap_if at each address
    iter,         \* the NetworkInterfaceIterator: its state, base and next
    yields,       \* what each call of next() returned, in call order
    freed         \* the pointers passed to pcap_freealldevs, in call order

devVars == <<devChain, devNodes, iter, yields, freed>>

\* Contents of a native pcap_if (its next pointer is given by the list).
NodeContents ==
    {[name |-> <<65>>, description |-> None, addresses |-> <<>>, flags |-> 1],
     [name |-> <<65, 255>>, description |-> Some(<<255>>),
      addresses |-> <<[addr |-> Some([sa_family |-> AF_INET, port |-> <<0, 80>>,
                                      addr |-> <<10, 0, 0, 1>>,
                                      flowinfo |-> <<>>, scope_id |-> <<>>]),
                       netmask |-> None, broadaddr |-> None, dstaddr |-> None]>>,
      flags |-> 14]}
DefaultNode == CHOOSE n \in NodeContents : n.flags = 1

\* The lists the native call may build: any nodes of memory, linked in any order.
Chains ==
    {c \in SeqsUpTo(1..MaxDevs, MaxDevs) :
        \A i, j \in 1..Len(c) : i # j => c[i] # c[j]}

InChain(ptr) == \E i \in 1..Len(devChain) : devChain[i] = ptr

\* The list head the native call returns; 0 is the null pointer.
ListHead == IF devChain = <<>> THEN 0 ELSE devChain[1]

\* pcap_if.next of the node at ptr
NextPtr(ptr) ==
    LET i == CHOOSE k \in 1..Len(devChain) : devChain[k] = ptr
    IN  IF i < Len(devChain) THEN devChain[i + 1] ELSE 0

\* IfFlags::from_bits_truncate: the bits of LOOPBACK (1), UP (2) and RUNNING (4)
from_bits_truncate(bits) == bits % 8

\* From<ffi::pcap_if> for NetworkInterface
NetworkInterface_from(interface, le) ==
    [name |-> to_string_lossy(interface.name),
     description |-> IF interface.description = None THEN None
                     ELSE Some(to_string_lossy(interface.description[1])),
     addresses |-> [i \in 1..Len(interface.addresses) |->
                       Address_from(interface.addresses[i], le)],
     flags |-> from_bits_truncate(interface.flags)]

NoIter == [state |-> "none", base |-> 0, next |-> 0]

DevIdle ==
    /\ devChain = <<>>
    /\ devNodes = [p \in 1..MaxDevs |-> DefaultNode]
    /\ iter = NoIter
    /\ yields = <<>>
    /\ freed = <<>>

DevInit ==
    /\ devChain \in Chains
    /\ devNodes \in [1..MaxDevs -> NodeContents]
    /\ \A p \in 1..MaxDevs : ~InChain(p) => devNodes[p] = DefaultNode
    /\ iter = NoIter
    /\ yields = <<>>
    /\ freed = <<>>

\* find_all_devs, as a bug would have it: the Error gets the code 1 whatever
\* the native call returned.
find_all_devs_result_one(status, buf) ==
    IF status = 0 THEN Ok("find_all_devs", status)
    ELSE Err("find_all_devs", status, Error_new(buf, 1))

\* find_all_devs
find_all_devs_result(status, buf) ==
    IF status = 0 THEN Ok("find_all_devs", status)
    ELSE Err("find_all_devs", status, Error_new(buf, status))

find_all_devs ==
    /\ iter.state = "none"
    /\ result = NoResult
    /\ \E status \in Statuses, buf \in ErrBufs :
          /\ result' = find_all_devs_result(status, buf)
          /\ iter' = IF status = 0
                     THEN [state |-> "live", base |-> ListHead, next |-> ListHead]
                     ELSE iter
    /\ lastOp' = "find_all_devs"
    /\ lastNative' = "pcap_findalldevs"
    /\ UNCHANGED <<devChain, devNodes, yields, freed>>

\* Iterator::next, as a bug would have it: the cursor is not advanced.
Iterator_next_stuck ==
    /\ iter.state = "live"
    /\ Len(yields) < MaxDevs + 2
    /\ yields' = Append(yields,
          IF iter.next # 0
          THEN Some([from |-> iter.next,
                     item |-> NetworkInterface_from(devNodes[iter.next], littleEndian)])
          ELSE None)
    /\ lastOp' = "next"
    /\ lastNative' = "none"
    /\ UNCHANGED <<devChain, devNodes, iter, freed, result>>

\* Iterator for NetworkInterfaceIterator::next. What it yields is recorded with
\* the address of the node it was copied from.
Iterator_next ==
    /\ iter.state = "live"
    /\ Len(yields) < MaxDevs + 2
    /\ IF iter.next # 0
       THEN /\ iter' = [iter EXCEPT !.next = NextPtr(iter.next)]
            /\ yields' = Append(yields,
                  Some([from |-> iter.next,
                        item |-> NetworkInterface_from(devNodes[iter.next],
                                                       littleEndian)]))
       ELSE /\ yields' = Append(yields, None)
            /\ UNCHANGED iter
    /\ lastOp' = "next"
    /\ lastNative' = "none"
    /\ UNCHANGED <<devChain, devNodes, freed, result>>

\* Drop for NetworkInterfaceIterator, as a bug would have it: the cursor is
\* freed, not the head.
Iterator_drop_cursor ==
    /\ iter.state = "live"
    /\ freed' = Append(freed, iter.next)
    /\ iter' = [iter EXCEPT !.state = "dropped"]
    /\ lastOp' = "Iterator_drop"
    /\ lastNative' = "pcap_freealldevs"
    /\ UNCHANGED <<devChain, devNodes, yields, result>>

\* Drop for NetworkInterfaceIterator: ffi::pcap_freealldevs(self.base)
Iterator_drop ==
    /\ iter.state = "live"
    /\ freed' = Append(freed, iter.base)
    /\ iter' = [iter EXCEPT !.state = "dropped"]
    /\ lastOp' = "Iterator_drop"
    /\ lastNative' = "pcap_freealldevs"
    /\ UNCHANGED <<devChain, devNodes, yields, result>>

\* ------------------------------------------------------ TimeStamp conversion
\* Largest number of seconds tried.
MaxSec == 10

VARIABLES
    tsIn,         \* the TimeStamp to convert
    sysTime       \* the SystemTime made from it, as the time since the epoch

timeVars == <<tsIn, sysTime>>

\* Values of usec tried: the ends and the middle of [0, 1_000_000), and values
\* past it. (usec * 1000 stays below 2^31, the largest product TLC's
\* integers hold.)
Usecs == {0, 1, 499999, 500000, 999999, 1000000, 1500000, 2147483}

TimeStampInputs == [sec : -1..MaxSec, usec : Usecs]

\* `as u32`, as a bug would have it: the cast keeps sixteen bits.
as_u16(v) == v % 65536

\* `as u32` of a non-negative i64: the low 32 bits, taken as two 16-bit halves
as_u32(v) == ((v \div 65536) % 65536) * 65536 + (v % 65536)

\* Duration::new: whole seconds held in nanos carry into secs
Duration_new(secs, nanos) ==
    [secs |-> secs + (nanos \div 1000000000), nanos |-> nanos % 1000000000]

\* Into<SystemTime> for TimeStamp. A negative sec becomes, as u64, a number
\* of seconds no SystemTime holds, and the addition panics.
TimeStamp_into(ts) ==
    IF ts.sec < 0 THEN [tag |-> "Panic"]
    ELSE LET d == Duration_new(ts.sec, as_u32(ts.usec * 1000))
         IN  [tag |-> "SystemTime", secs |-> d.secs, nanos |-> d.nanos]

NoTime == [tag |-> "None"]

TimeIdle == tsIn = [sec |-> 0, usec |-> 0] /\ sysTime = NoTime

TimeInit == tsIn \in TimeStampInputs /\ sysTime = NoTime

\* TimeStamp::into
into_SystemTime ==
    /\ sysTime = NoTime
    /\ sysTime' = TimeStamp_into(tsIn)
    /\ UNCHANGED tsIn

\* ------------------------------------------------------ Error construction
VARIABLES
    errIn,        \* the constructor of Error that is called, and its arguments
    errOut        \* what the call came to: an Error or a panic

errVars == <<errIn, errOut>>

\* What pcap_geterr may point to: nothing, or a C string of any bytes.
LastErrors ==
    {None} \cup {Some(t) : t \in SeqsUpTo(MessageBytes, PCAP_ERRBUF_SIZE - 1)}

\* Error::new takes the buffer a native call wrote to and a code;
\* Error::from_last takes the descriptor, whose last error it reads, and a code.
ErrInputs ==
    {[fn |-> "new", buf |-> b, geterr |-> None, code |-> c] :
        b \in ErrBufs, c \in Statuses}
    \cup {[fn |-> "from_last", buf |-> ErrBuf_new, geterr |-> g, code |-> c] :
        g \in LastErrors, c \in Statuses}

NoErr == [tag |-> "None"]

ErrIdle ==
    /\ errIn = [fn |-> "none", buf |-> ErrBuf_new, geterr |-> None, code |-> 0]
    /\ errOut = NoErr

ErrInit == errIn \in ErrInputs /\ errOut = NoErr

\* Error::new(err_buf, err_code)
Error_new_call ==
    /\ errIn.fn = "new"
    /\ errOut = NoErr
    /\ errOut' = [tag |-> "Error", error |-> Error_new(errIn.buf, errIn.code)]
    /\ UNCHANGED errIn

\* Error::from_last(handle, code)
Error_from_last_call ==
    /\ errIn.fn = "from_last"
    /\ errOut = NoErr
    /\ errOut' = IF from_last_panics(errIn.geterr)
                 THEN [tag |-> "Panic"]
                 ELSE [tag |-> "Error",
                       error |-> Error_from_last(errIn.geterr, errIn.code)]
    /\ UNCHANGED errIn

\* ----------------------------------------------------------- specification
vars == <<sessVars, addrVars, devVars, timeVars, errVars>>

SessIdle == SessInit /\ breakable = TRUE

Init == SessInit /\ AddrIdle /\ DevIdle /\ TimeIdle /\ ErrIdle

\* Each operation of the session leaves the other components alone.
SessOnly == UNCHANGED <<addrVars, devVars, timeVars, errVars>>

Next ==
    \/ create /\ SessOnly
    \/ open_live /\ SessOnly
    \/ datalink /\ SessOnly
    \/ Handle_break_loop /\ SessOnly
    \/ loop_breaker /\ SessOnly
    \/ compile /\ SessOnly
    \/ set_filter /\ SessOnly
    \/ set_nonblock /\ SessOnly
    \/ set_snaplen /\ SessOnly
    \/ set_promisc /\ SessOnly
    \/ activate /\ SessOnly
    \/ loop_ /\ SessOnly
    \/ pcap_loop_break /\ SessOnly
    \/ pcap_loop_deliver /\ SessOnly
    \/ pcap_loop_end /\ SessOnly
    \/ got_packet /\ SessOnly
    \/ LoopBreaker_clone /\ SessOnly
    \/ LoopBreaker_break_loop /\ SessOnly
    \/ LoopBreaker_drop /\ SessOnly
    \/ Handle_drop /\ SessOnly

Spec == Init /\ [][Next]_vars

\* The address conversion on its own.
AddrNext ==
    Address_from_pcap_addr /\ UNCHANGED <<sessVars, devVars, timeVars, errVars>>

AddrSpecInit == SessIdle /\ AddrInit /\ DevIdle /\ TimeIdle /\ ErrIdle

AddrSpec == AddrSpecInit /\ [][AddrNext]_vars

\* The device enumeration on its own.
DevOnly ==
    UNCHANGED <<breakable, pcap, ownVars, closeCount, staleCalls, breakFlag,
                loopVars, lastCb, lastText, addrVars, timeVars, errVars>>

DevNext ==
    \/ find_all_devs /\ DevOnly
    \/ Iterator_next /\ DevOnly
    \/ Iterator_drop /\ DevOnly

DevSpecInit == SessIdle /\ AddrIdle /\ DevInit /\ TimeIdle /\ ErrIdle

DevSpec == DevSpecInit /\ [][DevNext]_vars

\* The TimeStamp conversion on its own.
TimeNext ==
    into_SystemTime /\ UNCHANGED <<sessVars, addrVars, devVars, errVars>>

TimeSpecInit == SessIdle /\ AddrIdle /\ DevIdle /\ TimeInit /\ ErrIdle

TimeSpec == TimeSpecInit /\ [][TimeNext]_vars

\* The construction of an Error on its own.
ErrOnly == UNCHANGED <<sessVars, addrVars, devVars, timeVars>>

ErrNext ==
    \/ Error_new_call /\ ErrOnly
    \/ Error_from_last_call /\ ErrOnly

ErrSpecInit == SessIdle /\ AddrIdle /\ DevIdle /\ TimeIdle /\ ErrInit

ErrSpec == ErrSpecInit /\ [][ErrNext]_vars

\* The native engine looks at the break flag again (a packet arrives, the read
\* times out, or the break request wakes it), and a callback that was entered
\* returns.
FairSpec ==
    /\ Spec
    /\ WF_vars(pcap_loop_break /\ SessOnly)
    /\ WF_vars(got_packet /\ SessOnly)

\* ------------------------------------------------------------------ claims
LiveOwners == (IF handle = "live" THEN 1 ELSE 0) + breakers

\* C1: pcap_close is issued at most once, it has been issued exactly when the
\* Handle and every LoopBreaker derived from it are gone, and the step that
\* issues it is the drop of the last of them; so a Handle dropped while a
\* breaker lives does not close, and without the breakable feature the
\* Handle's drop alone closes.
C1_CloseOnceAtLastDrop ==
    /\ closeCount <= 1
    /\ (closeCount = 1) <=> (handle = "dropped" /\ breakers = 0)
    /\ lastNative = "pcap_close" =>
          /\ lastOp \in {"Handle_drop", "LoopBreaker_drop"}
          /\ LiveOwners = 0

\* The Handle went first, and the drop of the last breaker closed.
C1_Witness ==
    /\ breakable
    /\ handle = "dropped"
    /\ lastOp = "LoopBreaker_drop"
    /\ lastNative = "pcap_close"
    /\ closeCount = 1

\* C2: no native call is issued on a descriptor that is not open, and the
\* descriptor is open as long as the Handle or any LoopBreaker is held; so the
\* break_loop of a breaker that outlives the Handle targets an open descriptor.
C2_NoCallAfterClose ==
    /\ staleCalls = {}
    /\ breakers > 0 => pcap = "open"
    /\ handle = "live" => pcap = "open"

\* A breaker requests cancellation after the Handle was dropped.
C2_Witness ==
    /\ handle = "dropped"
    /\ lastOp = "LoopBreaker_break_loop"
    /\ lastNative = "pcap_breakloop"
    /\ pcap = "open"

\* C3: once break_loop was called on a LoopBreaker (or on the Handle, from the
\* callback) while loop_ runs, that loop_ returns: a request made while d
\* loop_ calls are suspended above the running one is followed by the return
\* of the running one. After the request no more callbacks return than were
\* running when it was made; no step of the loop or of the request panics;
\* and the descriptor is open, never closed, for as long as loop_ has not
\* returned.
C3_BreakEndsLoop ==
    /\ [](loopPc # "idle" => pcap = "open" /\ closeCount = 0)
    /\ [](cbAfterBreak <= 1 + MaxNest)
    /\ [](lastOp \in {"LoopBreaker_break_loop", "Handle_break_loop", "loop_",
                      "pcap_loop_break", "pcap_loop_deliver", "pcap_loop_end",
                      "got_packet"} => result.tag # "Panic")
    /\ \A d \in 0..MaxNest :
          (breakFlag /\ loopPc # "idle" /\ Len(outer) = d)
              ~> (loopPc = "idle" \/ Len(outer) < d)

\* What a typed socket address writes back into a native structure: the
\* octets, the port in network byte order, flow-info and scope id as the
\* target's integers.
u16_to_be_bytes(v) == <<v \div 256, v % 256>>
u32_to_ne_bytes(v, le) == IF le THEN Reverse(v) ELSE v
BytesOf(sa, le) ==
    IF sa.v = 4
    THEN [addr |-> sa.ip, port |-> u16_to_be_bytes(sa.port),
          flowinfo |-> <<>>, scope_id |-> <<>>]
    ELSE [addr |-> sa.ip, port |-> u16_to_be_bytes(sa.port),
          flowinfo |-> u32_to_ne_bytes(sa.flowinfo, le),
          scope_id |-> u32_to_ne_bytes(sa.scope_id, le)]
BytesIn(a) ==
    [addr |-> a.addr, port |-> a.port, flowinfo |-> a.flowinfo,
     scope_id |-> a.scope_id]
RoundTrips(ptr, conv) ==
    (ptr # None /\ ptr[1].sa_family \in {AF_INET, AF_INET6}) =>
        /\ conv # None
        /\ BytesOf(conv[1], littleEndian) = BytesIn(ptr[1])

\* C9: every field of a pcap_addr that points to an IPv4 or IPv6 structure
\* converts to a typed address that writes back the bytes it was made from.
C9_SockaddrRoundTrips ==
    address # None =>
        /\ RoundTrips(pcapAddr.addr, address[1].address)
        /\ RoundTrips(pcapAddr.netmask, address[1].netmask)
        /\ RoundTrips(pcapAddr.broadaddr, address[1].broadcast)
        /\ RoundTrips(pcapAddr.dstaddr, address[1].destination)

\* C4: pcap_freealldevs is called once, when the iterator is dropped and not
\* before, with the list head the native call returned, however far next()
\* had advanced; the head the iterator holds never changes.
C4_ListFreedOnceByHead ==
    /\ Len(freed) <= 1
    /\ (iter.state = "dropped") <=> (Len(freed) = 1)
    /\ freed # <<>> => freed[1] = ListHead
    /\ iter.state = "live" => iter.base = ListHead

\* The iterator was dropped part of the way through a list.
C4_Witness ==
    /\ iter.state = "dropped"
    /\ Len(devChain) >= 2
    /\ Len(yields) = 1
    /\ yields[1] # None
    /\ freed = <<ListHead>>

\* C5: the k-th call of next() yields the record of the k-th node of the
\* native list, and None once the list's N nodes were yielded.
C5_YieldsEachNodeInOrder ==
    \A k \in 1..Len(yields) :
        IF k <= Len(devChain)
        THEN /\ yields[k] # None
             /\ yields[k][1].from = devChain[k]
             /\ yields[k][1].item.name = to_string_lossy(devNodes[devChain[k]].name)
        ELSE yields[k] = None

\* A list of two or more nodes was iterated to its end, and next() was
\* called twice more.
C5_Witness ==
    /\ Len(devChain) >= 2
    /\ Len(yields) = Len(devChain) + 2
    /\ yields[Len(devChain)] # None
    /\ yields[Len(devChain) + 1] = None
    /\ yields[Len(devChain) + 2] = None

\* C10: a TimeStamp with sec >= 0 and 0 <= usec < 1_000_000 converts to the
\* epoch plus sec seconds plus usec microseconds, nothing carried and nothing
\* cut off; sec 10, usec 500_000 is 10.5 seconds after the epoch.
C10_TimeStampIsExact ==
    (sysTime # NoTime /\ tsIn.sec >= 0 /\ tsIn.usec >= 0 /\ tsIn.usec < 1000000) =>
        /\ sysTime.tag = "SystemTime"
        /\ sysTime.secs = tsIn.sec
        /\ sysTime.nanos = tsIn.usec * 1000
        /\ (tsIn.sec = 10 /\ tsIn.usec = 500000) =>
              (sysTime.secs = 10 /\ sysTime.nanos = 500000000)

\* sec 10, usec 500_000 was converted.
C10_Witness ==
    /\ tsIn = [sec |-> 10, usec |-> 500000]
    /\ sysTime = [tag |-> "SystemTime", secs |-> 10, nanos |-> 500000000]

ConfigOps == {"set_snaplen", "set_promisc", "set_nonblock", "compile",
              "set_filter", "activate"}

\* C6: a configuration operation that returns gives Ok exactly when its native
\* call returned 0, and otherwise an Err whose code is the native status.
C6_StatusBecomesCode ==
    (result.tag \in {"Ok", "Err"} /\ result.op \in ConfigOps) =>
        /\ (result.tag = "Ok") <=> (result.status = 0)
        /\ result.tag = "Err" => result.error.code = result.status

\* C7: create and open_live give an Err with a non-zero code, and no Handle,
\* when the native call returned a null descriptor; a Handle exists only for a
\* descriptor that is not null, and nothing is closed while no Handle was made.
C7_NullGivesErrWithCode ==
    /\ (result.tag \in {"Ok", "Err"} /\ result.op \in {"create", "open_live"}) =>
          IF result.status = 0
          THEN /\ result.tag = "Err"
               /\ result.error.code # 0
               /\ handle = "none"
          ELSE result.tag = "Ok" /\ handle = "live" /\ pcap = "open"
    /\ handle = "none" => pcap = "null" /\ closeCount = 0

\* C8: f receives exactly the first caplen bytes of the native payload and a
\* header with the native caplen and len; a truncated packet (caplen < len)
\* is delivered all the same, with a warning logged and nothing else.
C8_CallbackGetsCaplenBytes ==
    lastCb.seq # 0 =>
        /\ lastOp = "got_packet"
        /\ result = NoResult
        /\ Len(lastCb.args.bytes) = lastCb.native.caplen
        /\ \A i \in 1..lastCb.native.caplen :
              lastCb.args.bytes[i] = lastCb.native.data[i]
        /\ lastCb.args.header.caplen = lastCb.native.caplen
        /\ lastCb.args.header.len = lastCb.native.len
        /\ lastCb.args.warned <=> (lastCb.native.caplen < lastCb.native.len)

\* f was invoked with a truncated packet that still holds bytes.
C8_Witness ==
    /\ lastCb.seq # 0
    /\ lastCb.native.caplen > 0
    /\ lastCb.native.caplen < lastCb.native.len
    /\ lastCb.args.warned

\* C11: create, open_live or compile called with text that holds a NUL byte
\* panics and returns nothing; the panic comes before the native call, so no
\* native call is issued, create and open_live leave no descriptor and no
\* Handle behind, and compile leaves the session as it was.
C11_NulTextPanicsBeforeNative ==
    (lastText # None /\ HasNul(lastText[1])) =>
        /\ lastOp \in {"create", "open_live", "compile"}
        /\ result.tag = "Panic"
        /\ lastNative = "none"
        /\ staleCalls = {}
        /\ lastOp \in {"create", "open_live"} =>
              (handle = "none" /\ pcap = "null" /\ strong = 0)
        /\ lastOp = "compile" => (handle = "live" /\ pcap = "open")

\* compile was called on a live Handle with a filter text that holds a NUL.
C11_Witness ==
    /\ lastOp = "compile"
    /\ lastText = Some(<<65, NUL>>)
    /\ result.tag = "Panic"
    /\ lastNative = "none"
    /\ handle = "live"

\* C12: a step that is break_loop, of the Handle or of a LoopBreaker, issues
\* pcap_breakloop and sets the break request, and leaves the descriptor, the
\* count of closes, the Handle, the LoopBreakers and the reference count as
\* they were, whenever and however often it is taken.
C12_BreakLoopOnlyRequests ==
    [][lastOp' \in {"Handle_break_loop", "LoopBreaker_break_loop"} =>
          /\ lastNative' = "pcap_breakloop"
          /\ breakFlag'
          /\ UNCHANGED <<pcap, closeCount, handle, breakers, strong>>]_vars

\* During one loop_ a LoopBreaker asked, and then the Handle asked again from
\* the callback; the descriptor is open and every owner is still there.
C12_Witness ==
    /\ lastOp = "Handle_break_loop"
    /\ breakAsked = {"Handle", "LoopBreaker"}
    /\ loopPc = "callback"
    /\ breakers > 0
    /\ strong = breakers + 1
    /\ pcap = "open"
    /\ closeCount = 0

\* C13: a call that constructs an Error comes to an Error with the code it
\* was given, whatever bytes the last-error text or the error buffer holds;
\* it does not panic.
C13_ErrorAlwaysConstructed ==
    errOut # NoErr =>
        /\ errOut.tag = "Error"
        /\ errOut.error.code = errIn.code

\* C14: when the zeroed error buffer holds a NUL-terminated message, of any
\* length from 0 to the capacity less one, the Error made from it carries
\* the text before the first NUL as its message.
C14_WrittenMessageIsCarried ==
    (errOut # NoErr /\ errIn.fn = "new" /\ HasNul(errIn.buf)) =>
        /\ errOut.tag = "Error"
        /\ errOut.error.message =
              Some(to_string_lossy(SubSeq(errIn.buf, 1, FirstNul(errIn.buf) - 1)))

\* Callbacks that were entered and have not returned: one for each loop_
\* suspended by a nested loop_, and the one that is running.
InFlight == Len(outer) + (IF loopPc = "callback" THEN 1 ELSE 0)

\* C15: f has been invoked once for each packet the native engine delivered
\* and only for those (the packets whose callback has not returned are the
\* ones being delivered); a loop_ is handed its next packet only after the
\* callback of its last one returned, so its callbacks follow the order of
\* delivery; and every invocation of f is a step of the trampoline inside a
\* running loop_, with the Handle live and the descriptor open, so none
\* comes before loop_ is entered or after it has returned.
C15_CallbackOncePerPacketInLoop ==
    /\ [](/\ Len(cbLog) = delivered - InFlight
          /\ \A i \in 1..Len(cbLog) : cbLog[i] \in 1..delivered
          /\ \A i, j \in 1..Len(cbLog) : i # j => cbLog[i] # cbLog[j]
          /\ lastCb.seq # 0 => lastOp = "got_packet"
          /\ (loopPc = "callback") <=> (pkt # NoPkt))
    /\ [][cbLog' # cbLog =>
             /\ loopPc = "callback"
             /\ handle = "live"
             /\ pcap = "open"
             /\ \E n \in 1..delivered : cbLog' = Append(cbLog, n)
             /\ lastOp' = "got_packet"]_vars
    /\ [][delivered' # delivered =>
             /\ loopPc = "poll"
             /\ loopPc' = "callback"
             /\ pkt = NoPkt
             /\ delivered' = delivered + 1]_vars

\* Two packets were delivered to a loop_ of two packets, f was invoked with
\* the first and then the second, and loop_ has returned.
C15_Witness ==
    /\ cbLog = <<1, 2>>
    /\ delivered = 2
    /\ lastOp = "got_packet"
    /\ lastCb.seq = 2
    /\ loopPc = "idle"

\* C16: find_all_devs returns Err exactly when pcap_findalldevs returned a
\* status other than 0, the Error's code is that status, and after an Err
\* there is no NetworkInterfaceIterator, nothing was yielded and
\* pcap_freealldevs was not called.
C16_FailedEnumerationGivesErr ==
    /\ result.tag \in {"Ok", "Err"} =>
          /\ result.op = "find_all_devs"
          /\ (result.tag = "Err") <=> (result.status # 0)
    /\ result.tag = "Err" =>
          /\ result.error.code = result.status
          /\ iter = NoIter
          /\ yields = <<>>
          /\ freed = <<>>
          /\ lastNative = "pcap_findalldevs"
    /\ iter.state = "none" => freed = <<>>

\* pcap_findalldevs returned -1 and find_all_devs returned the Err.
C16_Witness ==
    /\ lastOp = "find_all_devs"
    /\ result.tag = "Err"
    /\ result.status = -1
    /\ result.error.code = -1
    /\ iter = NoIter
    /\ freed = <<>>

\* A field is absent exactly when its pointer is null or the structure it
\* points to is of a family other than IPv4 and IPv6, and a field that is
\* there is of the version of that family.
AbsentIffUnrecognised(ptr, conv) ==
    /\ (conv = None) <=>
          (ptr = None \/ ptr[1].sa_family \notin {AF_INET, AF_INET6})
    /\ conv # None => (conv[1].v = 4) <=> (ptr[1].sa_family = AF_INET)

\* C17: the conversion of a pcap_addr always gives an Address, and each of
\* its four fields, whatever the other three are, is None exactly when the
\* native pointer of that field is null or points to a structure of a family
\* that is neither IPv4 nor IPv6.
C17_FieldAbsentIffUnrecognised ==
    address # None =>
        /\ AbsentIffUnrecognised(pcapAddr.addr, address[1].address)
        /\ AbsentIffUnrecognised(pcapAddr.netmask, address[1].netmask)
        /\ AbsentIffUnrecognised(pcapAddr.broadaddr, address[1].broadcast)
        /\ AbsentIffUnrecognised(pcapAddr.dstaddr, address[1].destination)

\* A pcap_addr with a null address pointer, an IPv4 netmask, a broadcast
\* address of another family and an IPv6 destination was converted.
C17_Witness ==
    /\ address # None
    /\ pcapAddr.addr = None
    /\ pcapAddr.netmask # None
    /\ pcapAddr.netmask[1].sa_family = AF_INET
    /\ pcapAddr.broadaddr # None
    /\ pcapAddr.broadaddr[1].sa_family = 17
    /\ pcapAddr.dstaddr # None
    /\ pcapAddr.dstaddr[1].sa_family = AF_INET6
    /\ address[1].address = None
    /\ address[1].netmask # None
    /\ address[1].broadcast = None
    /\ address[1].destination # None

====
